---- MODULE Spec2Model ----
(***************************************************************************)
(* Model of the notebook "Part II - Uploading and Sharing Models on        *)
(* Hugging Face Hub with Intel Optimizations" (MLOps_Professional/lab9).   *)
(*                                                                         *)
(* The notebook is a straight-line script of calls into huggingface_hub,   *)
(* transformers and the local filesystem.  pc names the next statement of  *)
(* the notebook; one action executes one statement.  Every external call   *)
(* either returns (and has its documented effect) or raises; nothing in    *)
(* the notebook catches an exception, so a raise ends the run (the cells   *)
(* are executed top to bottom, execution stopping at the first error).     *)
(* The local filesystem, the remote hub and the log of calls made are      *)
(* part of the state so that ordering and content can be checked.          *)
(***************************************************************************)
EXTENDS Naturals, Sequences, FiniteSets

VARIABLES
    pc,                  \* next statement of the notebook, or "done" / "failed"
    path_literal,        \* the literal on the right of `checkpoint_path = ...`
    name_literal,        \* the literal on the right of `model_name_on_hub = ...`
    checkpoint_path,     \* notebook variable
    model_name_on_hub,   \* notebook variable
    model,               \* notebook variable
    tokenizer,           \* notebook variable
    model_card_content,  \* notebook variable
    model_card_filename, \* notebook variable
    repo,                \* notebook variable
    credential,          \* token stored by huggingface_hub on this machine
    fs,                  \* local filesystem: <<dir, file>> -> content
    hub,                 \* remote hub: <<repository, file>> -> content
    calls,               \* every external call invoked so far, in order
    raised               \* the call whose exception ended the run, or None

vars == <<pc, path_literal, name_literal, checkpoint_path, model_name_on_hub,
          model, tokenizer, model_card_content, model_card_filename, repo,
          credential, fs, hub, calls, raised>>

\* ------------------------------------------------------------------ bounds

\* number of distinct trained parameter sets a checkpoint directory may hold
NumWeights == 2

\* ------------------------------------------------------- values and literals

None == [kind |-> "none"]          \* a notebook variable not yet assigned
Absent == [kind |-> "absent"]      \* no file at this path
NoString == "<unassigned>"         \* a string variable not yet assigned
NoPath == << >>                    \* a path variable not yet assigned
NoToken == "no-token"
LoginToken == "hf-token"

\* checkpoint folders the user may point the notebook at (line 78 and its
\* comment "Replace with your checkpoint folder")
CheckpointPaths == {"./results/checkpoint-2000", "./results/checkpoint-500"}

\* public names the user may choose (line 107)
HubNames == {"desired-model-name", "my-emotions-clf"}

\* the identifier the tokenizer is loaded from (line 84)
BaseTokenizerId == "distilbert-base-uncased"

ModelFile == "model"
TokenizerFile == "tokenizer"
ReadmeFile == "README.md"
Files == {ModelFile, TokenizerFile, ReadmeFile}
Dirs == CheckpointPaths \cup HubNames

Weights(w) == [kind |-> "model", weights |-> w]
Vocabulary(v) == [kind |-> "tokenizer", vocab |-> v]
Text(lines) == [kind |-> "text", lines |-> lines]

\* what the hub serves for a tokenizer identifier
HubTokenizer(id) == Vocabulary(id)

\* a tokenizer trained with the checkpoint (customised vocabulary)
CustomVocab == "custom-vocab"

\* the template string of the model-card cell, line by line (blank lines
\* dropped)
ModelCardTemplate ==
  Text(
    << "# Model Card for My Fine-Tuned Model",
       "## Model Description",
       "- **Purpose**: [Describe the purpose of your model. What task does it perform?]",
       "- **Model architecture**: [Specify the architecture, e.g., BERT, GPT-2, etc.]",
       "- **Training data**: [Briefly describe the dataset used for training. Include any data cleaning or preprocessing steps.]",
       "## Intended Use",
       "- **Intended users**: [Who are the intended users of the model?]",
       "- **Use cases**: [Describe potential use cases for the model.]",
       "## Limitations",
       "- **Known limitations**: [Mention any known limitations of the model.]",
       "## Hardware ",
       "- **Training Platform**: [Describe details about the systems and platform used to train the model.]",
       "## Software Optimizations",
       "- **Known Optimizations**: [Describe details about any optimizations used during training.]",
       "## Ethical Considerations",
       "- **Ethical concerns**: [Discuss any ethical concerns related to the use of your model.]",
       "## More Information",
       "- [Include any additional information, links, or references.]" >>)

\* ------------------------------------------------------------------ helpers

\* variant: the tokenizer is pushed before the model
StatementsTokenizerPushedFirst ==
    << "login", "load_model", "load_tokenizer", "save_model", "save_tokenizer",
       "push_tokenizer", "push_model", "define_card", "write_card",
       "open_repo", "push_card" >>

\* variant: the repository handle is opened before the model card is written
StatementsRepoBeforeCard ==
    << "login", "load_model", "load_tokenizer", "save_model", "save_tokenizer",
       "push_model", "push_tokenizer", "define_card", "open_repo",
       "write_card", "push_card" >>

\* the statements of the notebook's code cells, top to bottom
Statements ==
    << "login", "load_model", "load_tokenizer", "save_model", "save_tokenizer",
       "push_model", "push_tokenizer", "define_card", "write_card",
       "open_repo", "push_card" >>

\* the statement executed after s, "done" after the last one
After(s) ==
    LET i == CHOOSE k \in DOMAIN Statements : Statements[k] = s
    IN  IF i = Len(Statements) THEN "done" ELSE Statements[i + 1]

\* variant: the card path is built from the sample name, not the variable
CardPathHardCoded(name) == <<"desired-model-name", ReadmeFile>>

\* f"{model_name_on_hub}/README.md": a path is the pair <<directory, file>>
CardPath(name) == <<name, ReadmeFile>>

DirExists(d) == \E f \in Files : fs[<<d, f>>] # Absent

\* variant: a missing checkpoint is not noticed by the load
CheckpointLoadableAlways(path) == TRUE

\* from_pretrained(path) finds a serialized model under path
CheckpointLoadable(path) == fs[<<path, ModelFile>>] # Absent

\* variant: the directory is recreated on every save
SavePretrainedFreshDir(dir, file, content) ==
    [p \in Dirs \X Files |->
        IF p[1] = dir THEN (IF p[2] = file THEN content ELSE Absent) ELSE fs[p]]

\* x.save_pretrained(dir): the artifact's file is (over)written in dir
SavePretrained(dir, file, content) == [fs EXCEPT ![<<dir, file>>] = content]

\* x.push_to_hub(name): the artifact's file is (over)written in the remote
\* repository of that name
Upload(name, file, content) == [hub EXCEPT ![<<name, file>>] = content]

\* variant: the placeholder lines are dropped, only the first line is kept
FileWriteTitleOnly(path, text) ==
    [fs EXCEPT ![path] = Text(SubSeq(text.lines, 1, 1))]

\* file.write(text) on a file opened with "w": the file holds the text
FileWrite(path, text) == [fs EXCEPT ![path] = text]

\* Repository.push_to_hub: every file of the working directory is committed
\* and pushed to the repository it was cloned from
CommitAll(local_dir, remote) ==
    [p \in HubNames \X Files |->
        IF p[1] = remote /\ fs[<<local_dir, p[2]>>] # Absent
        THEN fs[<<local_dir, p[2]>>] ELSE hub[p]]

\* Repository(local_dir, clone_from=remote) on an absent directory clones the
\* remote repository into it; an existing directory is left as it is
Clone(local_dir, remote) ==
    IF DirExists(local_dir) THEN fs
    ELSE [p \in Dirs \X Files |->
             IF p[1] = local_dir THEN hub[<<remote, p[2]>>] ELSE fs[p]]

Call(fn, arg, ok) == [fn |-> fn, arg |-> arg, ok |-> ok, token |-> credential]

\* variant: the exception is swallowed and the next statement runs
RaiseSwallowed(fn, arg) ==
    /\ calls' = Append(calls, Call(fn, arg, FALSE))
    /\ raised' = fn
    /\ pc' = After(pc)

\* an uncaught exception: the call is logged, the run ends, nothing else moves
Raise(fn, arg) ==
    /\ calls' = Append(calls, Call(fn, arg, FALSE))
    /\ raised' = fn
    /\ pc' = "failed"

\* the call returns and the next statement is up
Return(fn, arg) ==
    /\ calls' = Append(calls, Call(fn, arg, TRUE))
    /\ pc' = After(pc)
    /\ UNCHANGED raised

\* ------------------------------------------------------------------ Init

Init ==
    /\ pc = "login"
    /\ path_literal \in CheckpointPaths
    /\ name_literal \in HubNames
    /\ checkpoint_path = NoString
    /\ model_name_on_hub = NoString
    /\ model = None
    /\ tokenizer = None
    /\ model_card_content = None
    /\ model_card_filename = NoPath
    /\ repo = None
    /\ credential = NoToken
    /\ \E ckw \in [CheckpointPaths -> 0..NumWeights],
          ckv \in [CheckpointPaths -> {BaseTokenizerId, CustomVocab}] :
          fs = [p \in Dirs \X Files |->
                  IF p[1] \in CheckpointPaths /\ ckw[p[1]] # 0
                  THEN (CASE p[2] = ModelFile -> Weights(ckw[p[1]])
                          [] p[2] = TokenizerFile -> Vocabulary(ckv[p[1]])
                          [] OTHER -> Absent)
                  ELSE Absent]
    /\ hub = [p \in HubNames \X Files |-> Absent]
    /\ calls = << >>
    /\ raised = "none"

\* ------------------------------------------------------------------ actions

\* variant: the login call returns without a token having been stored
LoginWithoutToken ==
    /\ pc = "login"
    /\ \/ Return("notebook_login", NoString)
       \/ Raise("notebook_login", NoString)
    /\ UNCHANGED <<path_literal, name_literal, checkpoint_path, model_name_on_hub,
                   model, tokenizer, model_card_content, model_card_filename,
                   repo, credential, fs, hub>>

\* cell 1: notebook_login()
Login ==
    /\ pc = "login"
    /\ \/ /\ credential' = LoginToken
          /\ Return("notebook_login", NoString)
       \/ /\ Raise("notebook_login", NoString)
          /\ UNCHANGED credential
    /\ UNCHANGED <<path_literal, name_literal, checkpoint_path, model_name_on_hub,
                   model, tokenizer, model_card_content, model_card_filename,
                   repo, fs, hub>>

\* variant: the model is built from the configuration only, with fresh weights
LoadModelFreshWeights ==
    /\ pc = "load_model"
    /\ checkpoint_path' = path_literal
    /\ \/ /\ CheckpointLoadable(path_literal)
          /\ model' = Weights(0)
          /\ Return("AutoModelForSequenceClassification.from_pretrained", path_literal)
       \/ /\ Raise("AutoModelForSequenceClassification.from_pretrained", path_literal)
          /\ UNCHANGED model
    /\ UNCHANGED <<path_literal, name_literal, model_name_on_hub, tokenizer,
                   model_card_content, model_card_filename, repo, credential,
                   fs, hub>>

\* cell 2: checkpoint_path = ...; model = ...from_pretrained(checkpoint_path)
LoadModel ==
    /\ pc = "load_model"
    /\ checkpoint_path' = path_literal
    /\ \/ /\ CheckpointLoadable(path_literal)
          /\ model' = fs[<<path_literal, ModelFile>>]
          /\ Return("AutoModelForSequenceClassification.from_pretrained", path_literal)
       \/ /\ Raise("AutoModelForSequenceClassification.from_pretrained", path_literal)
          /\ UNCHANGED model
    /\ UNCHANGED <<path_literal, name_literal, model_name_on_hub, tokenizer,
                   model_card_content, model_card_filename, repo, credential,
                   fs, hub>>

\* variant: the tokenizer is loaded from the checkpoint folder
LoadTokenizerFromCheckpoint ==
    /\ pc = "load_tokenizer"
    /\ \/ /\ fs[<<checkpoint_path, TokenizerFile>>] # Absent
          /\ tokenizer' = fs[<<checkpoint_path, TokenizerFile>>]
          /\ Return("AutoTokenizer.from_pretrained", checkpoint_path)
       \/ /\ Raise("AutoTokenizer.from_pretrained", checkpoint_path)
          /\ UNCHANGED tokenizer
    /\ UNCHANGED <<path_literal, name_literal, checkpoint_path, model_name_on_hub,
                   model, model_card_content, model_card_filename, repo,
                   credential, fs, hub>>

\* cell 2: tokenizer = AutoTokenizer.from_pretrained("distilbert-base-uncased")
LoadTokenizer ==
    /\ pc = "load_tokenizer"
    /\ \/ /\ tokenizer' = HubTokenizer(BaseTokenizerId)
          /\ Return("AutoTokenizer.from_pretrained", BaseTokenizerId)
       \/ /\ Raise("AutoTokenizer.from_pretrained", BaseTokenizerId)
          /\ UNCHANGED tokenizer
    /\ UNCHANGED <<path_literal, name_literal, checkpoint_path, model_name_on_hub,
                   model, model_card_content, model_card_filename, repo,
                   credential, fs, hub>>

\* cell 3: model_name_on_hub = ...; model.save_pretrained(model_name_on_hub)
SaveModel ==
    /\ pc = "save_model"
    /\ model_name_on_hub' = name_literal
    /\ \/ /\ fs' = SavePretrained(name_literal, ModelFile, model)
          /\ Return("model.save_pretrained", name_literal)
       \/ /\ Raise("model.save_pretrained", name_literal)
          /\ UNCHANGED fs
    /\ UNCHANGED <<path_literal, name_literal, checkpoint_path, model, tokenizer,
                   model_card_content, model_card_filename, repo, credential, hub>>

\* cell 3: tokenizer.save_pretrained(model_name_on_hub)
SaveTokenizer ==
    /\ pc = "save_tokenizer"
    /\ \/ /\ fs' = SavePretrained(model_name_on_hub, TokenizerFile, tokenizer)
          /\ Return("tokenizer.save_pretrained", model_name_on_hub)
       \/ /\ Raise("tokenizer.save_pretrained", model_name_on_hub)
          /\ UNCHANGED fs
    /\ UNCHANGED <<path_literal, name_literal, checkpoint_path, model_name_on_hub,
                   model, tokenizer, model_card_content, model_card_filename,
                   repo, credential, hub>>

\* cell 3: model.push_to_hub(model_name_on_hub)
PushModel ==
    /\ pc = "push_model"
    /\ \/ /\ credential # NoToken
          /\ hub' = Upload(model_name_on_hub, ModelFile, model)
          /\ Return("model.push_to_hub", model_name_on_hub)
       \/ /\ Raise("model.push_to_hub", model_name_on_hub)
          /\ UNCHANGED hub
    /\ UNCHANGED <<path_literal, name_literal, checkpoint_path, model_name_on_hub,
                   model, tokenizer, model_card_content, model_card_filename,
                   repo, credential, fs>>

\* cell 3: tokenizer.push_to_hub(model_name_on_hub)
PushTokenizer ==
    /\ pc = "push_tokenizer"
    /\ \/ /\ credential # NoToken
          /\ hub' = Upload(model_name_on_hub, TokenizerFile, tokenizer)
          /\ Return("tokenizer.push_to_hub", model_name_on_hub)
       \/ /\ Raise("tokenizer.push_to_hub", model_name_on_hub)
          /\ UNCHANGED hub
    /\ UNCHANGED <<path_literal, name_literal, checkpoint_path, model_name_on_hub,
                   model, tokenizer, model_card_content, model_card_filename,
                   repo, credential, fs>>

\* cell 4: model_card_content = """..."""  (an assignment; it cannot raise)
DefineCard ==
    /\ pc = "define_card"
    /\ model_card_content' = ModelCardTemplate
    /\ pc' = After(pc)
    /\ UNCHANGED <<path_literal, name_literal, checkpoint_path, model_name_on_hub,
                   model, tokenizer, model_card_filename, repo, credential,
                   fs, hub, calls, raised>>

\* cell 5: model_card_filename = f"{model_name_on_hub}/README.md"
\*         with open(model_card_filename, "w") as file: file.write(...)
\* open(..., "w") raises when the directory does not exist
WriteCard ==
    /\ pc = "write_card"
    /\ model_card_filename' = CardPath(model_name_on_hub)
    /\ \/ /\ DirExists(model_name_on_hub)
          /\ fs' = FileWrite(CardPath(model_name_on_hub), model_card_content)
          /\ Return("file.write", CardPath(model_name_on_hub)[1])
       \/ /\ Raise("file.write", CardPath(model_name_on_hub)[1])
          /\ UNCHANGED fs
    /\ UNCHANGED <<path_literal, name_literal, checkpoint_path, model_name_on_hub,
                   model, tokenizer, model_card_content, repo, credential, hub>>

\* cell 5: repo = Repository(model_name_on_hub, clone_from=model_name_on_hub)
OpenRepo ==
    /\ pc = "open_repo"
    /\ \/ /\ repo' = [kind |-> "repo", local_dir |-> model_name_on_hub,
                      clone_from |-> model_name_on_hub]
          /\ fs' = Clone(model_name_on_hub, model_name_on_hub)
          /\ Return("Repository", model_name_on_hub)
       \/ /\ Raise("Repository", model_name_on_hub)
          /\ UNCHANGED <<repo, fs>>
    /\ UNCHANGED <<path_literal, name_literal, checkpoint_path, model_name_on_hub,
                   model, tokenizer, model_card_content, model_card_filename,
                   credential, hub>>

\* cell 5: repo.push_to_hub(commit_message="Add model card")
PushCard ==
    /\ pc = "push_card"
    /\ \/ /\ credential # NoToken
          /\ hub' = CommitAll(repo.local_dir, repo.clone_from)
          /\ Return("repo.push_to_hub", repo.clone_from)
       \/ /\ Raise("repo.push_to_hub", repo.clone_from)
          /\ UNCHANGED hub
    /\ UNCHANGED <<path_literal, name_literal, checkpoint_path, model_name_on_hub,
                   model, tokenizer, model_card_content, model_card_filename,
                   repo, credential, fs>>

Next ==
    \/ Login
    \/ LoadModel
    \/ LoadTokenizer
    \/ SaveModel
    \/ SaveTokenizer
    \/ PushModel
    \/ PushTokenizer
    \/ DefineCard
    \/ WriteCard
    \/ OpenRepo
    \/ PushCard

Spec == Init /\ [][Next]_vars

\* ------------------------------------------------------------------ properties

CallsTo(fn) == {i \in DOMAIN calls : calls[i].fn = fn}
Invoked(fn) == CallsTo(fn) # {}
Returned(fn) == \E i \in CallsTo(fn) : calls[i].ok

UploadFns == {"model.push_to_hub", "tokenizer.push_to_hub", "repo.push_to_hub"}
SaveFns == {"model.save_pretrained", "tokenizer.save_pretrained", "file.write"}
NameTakingFns == UploadFns \cup SaveFns \cup {"Repository"}

\* the local save or write an upload corresponds to
LocalStepOf(fn) ==
    CASE fn = "model.push_to_hub" -> "model.save_pretrained"
      [] fn = "tokenizer.push_to_hub" -> "tokenizer.save_pretrained"
      [] fn = "repo.push_to_hub" -> "file.write"

\* position of an upload in the required order model, tokenizer, model card
UploadRank(fn) ==
    CASE fn = "model.push_to_hub" -> 1
      [] fn = "tokenizer.push_to_hub" -> 2
      [] fn = "repo.push_to_hub" -> 3

\* C1: every upload is invoked at most once, only after its own local save or
\* write has returned, and after the uploads that precede it in the order
\* model, tokenizer, model card; a completed run has made each exactly once.
C1_UploadsOnceInOrderAfterSave ==
    /\ \A u \in UploadFns : Cardinality(CallsTo(u)) <= 1
    /\ \A i \in DOMAIN calls :
          calls[i].fn \in UploadFns =>
             /\ \E j \in 1..(i - 1) :
                   calls[j].fn = LocalStepOf(calls[i].fn) /\ calls[j].ok
             /\ \A u \in UploadFns :
                   UploadRank(u) < UploadRank(calls[i].fn) =>
                      \E j \in 1..(i - 1) : calls[j].fn = u /\ calls[j].ok
    /\ pc = "done" =>
          \A u \in UploadFns : Cardinality(CallsTo(u)) = 1 /\ Returned(u)

C1_Witness ==
    /\ pc = "done"
    /\ \A u \in UploadFns : Returned(u)

\* C2: when the checkpoint folder does not exist the run never gets past the
\* model load: no save, no upload, no README write and no repository handle is
\* ever attempted, nothing is written locally or remotely, and once the load
\* has been attempted the run has failed with the load's exception.
C2_MissingCheckpointStopsAtLoad ==
    (\A f \in Files : fs[<<path_literal, f>>] = Absent) =>
       /\ pc \in {"login", "load_model", "failed"}
       /\ \A i \in DOMAIN calls : calls[i].fn \notin NameTakingFns
       /\ \A n \in HubNames : ~DirExists(n)
       /\ \A p \in HubNames \X Files : hub[p] = Absent
       /\ model = None
       /\ Invoked("AutoModelForSequenceClassification.from_pretrained") =>
             /\ pc = "failed"
             /\ raised = "AutoModelForSequenceClassification.from_pretrained"

C2_Witness ==
    /\ \A f \in Files : fs[<<path_literal, f>>] = Absent
    /\ checkpoint_path = path_literal
    /\ raised = "AutoModelForSequenceClassification.from_pretrained"

\* the effect a returned call has had, as still visible in the state
EffectPresent(c) ==
    CASE c.fn = "notebook_login" -> credential = LoginToken
      [] c.fn = "AutoModelForSequenceClassification.from_pretrained" ->
            model # None /\ model = fs[<<c.arg, ModelFile>>]
      [] c.fn = "AutoTokenizer.from_pretrained" -> tokenizer = HubTokenizer(c.arg)
      [] c.fn = "model.save_pretrained" ->
            model # None /\ fs[<<c.arg, ModelFile>>] = model
      [] c.fn = "tokenizer.save_pretrained" ->
            tokenizer # None /\ fs[<<c.arg, TokenizerFile>>] = tokenizer
      [] c.fn = "model.push_to_hub" ->
            model # None /\ hub[<<c.arg, ModelFile>>] = model
      [] c.fn = "tokenizer.push_to_hub" ->
            tokenizer # None /\ hub[<<c.arg, TokenizerFile>>] = tokenizer
      [] c.fn = "file.write" ->
            model_card_content # None /\ fs[<<c.arg, ReadmeFile>>] = model_card_content
      [] c.fn = "Repository" -> repo # None
      [] c.fn = "repo.push_to_hub" ->
            model_card_content # None /\ hub[<<c.arg, ReadmeFile>>] = model_card_content

\* C3: a call that raises ends the run: it is the last call of the log, it was
\* invoked once, every call before it returned, the run is in its failed state,
\* and the effects of the calls that returned before it are all still there.
C3_FailurePropagatesNoRetryNoRollback ==
    /\ (raised # "none") <=> (pc = "failed")
    /\ \A i \in DOMAIN calls :
          ~calls[i].ok =>
             /\ i = Len(calls)
             /\ pc = "failed"
             /\ raised = calls[i].fn
             /\ Cardinality(CallsTo(calls[i].fn)) = 1
    /\ pc = "failed" => calls # << >> /\ ~calls[Len(calls)].ok
    /\ \A i \in DOMAIN calls : calls[i].ok => EffectPresent(calls[i])

C3_Witness ==
    /\ pc = "failed"
    /\ raised = "tokenizer.push_to_hub"
    /\ hub[<<model_name_on_hub, ModelFile>>] = model
    /\ fs[<<model_name_on_hub, TokenizerFile>>] = tokenizer

\* C4: from the moment both save_pretrained calls have returned, the local
\* directory named model_name_on_hub holds the model and the tokenizer, in
\* every later state, the start of the first upload included.
C4_PersistedDirectoryHoldsBoth ==
    (Returned("model.save_pretrained") /\ Returned("tokenizer.save_pretrained")) =>
       /\ model_name_on_hub = name_literal
       /\ DirExists(model_name_on_hub)
       /\ fs[<<model_name_on_hub, ModelFile>>] # Absent
       /\ fs[<<model_name_on_hub, ModelFile>>] = model
       /\ fs[<<model_name_on_hub, TokenizerFile>>] # Absent
       /\ fs[<<model_name_on_hub, TokenizerFile>>] = tokenizer

C4_Witness ==
    /\ pc = "push_model"
    /\ Returned("tokenizer.save_pretrained")
    /\ ~Invoked("model.push_to_hub")

LinesOf(text) == {text.lines[i] : i \in DOMAIN text.lines}

NoHeader == "<no header>"

\* the title of a Markdown level-2 header line ("## Title", surrounding blanks
\* stripped), NoHeader for every other line of the template
HeaderTitle(line) ==
    CASE line = "## Model Description" -> "Model Description"
      [] line = "## Intended Use" -> "Intended Use"
      [] line = "## Limitations" -> "Limitations"
      [] line = "## Hardware " -> "Hardware"
      [] line = "## Software Optimizations" -> "Software Optimizations"
      [] line = "## Ethical Considerations" -> "Ethical Considerations"
      [] line = "## More Information" -> "More Information"
      [] OTHER -> NoHeader

SectionTitles(text) == {HeaderTitle(l) : l \in LinesOf(text)} \ {NoHeader}

\* the section headers as the specification lists them
ListedSectionHeaders ==
    { "Description", "Intended Use", "Limitations", "Hardware",
      "Software Optimizations", "Ethical Considerations", "More Information" }

\* the section headers of the template cell
TemplateSectionHeaders ==
    { "Model Description", "Intended Use", "Limitations", "Hardware",
      "Software Optimizations", "Ethical Considerations", "More Information" }

\* the card is at <model_name_on_hub>/README.md, holds the template verbatim,
\* and the remote README.md is the content written
CardVerbatim ==
    /\ Returned("file.write") =>
          /\ model_card_filename = <<model_name_on_hub, "README.md">>
          /\ fs[model_card_filename] = ModelCardTemplate
          /\ fs[model_card_filename] = model_card_content
    /\ Returned("repo.push_to_hub") =>
          /\ hub[<<model_name_on_hub, "README.md">>] = fs[model_card_filename]
          /\ hub[<<model_name_on_hub, "README.md">>] = ModelCardTemplate

\* C5 (as stated): the card is written to <model_name_on_hub>/README.md with
\* exactly the template's content, its section headers are Description,
\* Intended Use, Limitations, Hardware, Software Optimizations, Ethical
\* Considerations and More Information, and the uploaded card is the content
\* written.
C5_CardHasListedHeaders ==
    /\ CardVerbatim
    /\ Returned("file.write") =>
          SectionTitles(fs[<<model_name_on_hub, ReadmeFile>>]) = ListedSectionHeaders

\* C5 (amended): the same, the first section header being Model Description.
C5_CardWrittenAndUploadedVerbatim ==
    /\ CardVerbatim
    /\ Returned("file.write") =>
          /\ SectionTitles(fs[<<model_name_on_hub, ReadmeFile>>]) = TemplateSectionHeaders
          /\ Len(fs[<<model_name_on_hub, ReadmeFile>>].lines) = Len(ModelCardTemplate.lines)
          /\ "Description" \notin SectionTitles(fs[<<model_name_on_hub, ReadmeFile>>])

C5_Witness ==
    /\ Returned("repo.push_to_hub")
    /\ hub[<<model_name_on_hub, ReadmeFile>>] # Absent
    /\ "Model Description" \in SectionTitles(hub[<<model_name_on_hub, ReadmeFile>>])

\* C6: every call that takes a name is given the one chosen name, no other
\* name's directory or repository is touched, and the run with checkpoint
\* ./results/checkpoint-2000 and name desired-model-name ends with the local
\* directory desired-model-name holding model, tokenizer and README.md and
\* exactly three upload calls made.
C6_SameNameEverywhere ==
    /\ \A i \in DOMAIN calls :
          calls[i].fn \in NameTakingFns => calls[i].arg = name_literal
    /\ model_card_filename # NoPath => model_card_filename[1] = name_literal
    /\ repo # None => repo.local_dir = name_literal /\ repo.clone_from = name_literal
    /\ \A n \in HubNames \ {name_literal} :
          ~DirExists(n) /\ \A f \in Files : hub[<<n, f>>] = Absent
    /\ (pc = "done" /\ path_literal = "./results/checkpoint-2000"
                    /\ name_literal = "desired-model-name") =>
          /\ \A f \in Files : fs[<<"desired-model-name", f>>] # Absent
          /\ Cardinality({i \in DOMAIN calls : calls[i].fn \in UploadFns}) = 3
          /\ \A i \in DOMAIN calls :
                calls[i].fn \in UploadFns => calls[i].arg = "desired-model-name"

C6_Witness ==
    /\ pc = "done"
    /\ path_literal = "./results/checkpoint-2000"
    /\ name_literal = "desired-model-name"
    /\ fs[<<"desired-model-name", ReadmeFile>>] # Absent

\* C7: the model variable, the model saved locally and the model uploaded are
\* the parameter set found in the checkpoint folder.
C7_ModelPassedThroughUnchanged ==
    /\ model # None => model = fs[<<path_literal, ModelFile>>]
    /\ Returned("model.save_pretrained") =>
          fs[<<model_name_on_hub, ModelFile>>] = fs[<<path_literal, ModelFile>>]
    /\ Returned("model.push_to_hub") =>
          hub[<<model_name_on_hub, ModelFile>>] = fs[<<path_literal, ModelFile>>]

C7_Witness ==
    /\ Returned("model.push_to_hub")
    /\ hub[<<model_name_on_hub, ModelFile>>] = Weights(NumWeights)

C9_TokenizerIndependentOfCheckpoint ==
    /\ tokenizer # None => tokenizer = HubTokenizer("distilbert-base-uncased")
    /\ Returned("tokenizer.save_pretrained") =>
          fs[<<model_name_on_hub, TokenizerFile>>] = HubTokenizer("distilbert-base-uncased")
    /\ Returned("tokenizer.push_to_hub") =>
          hub[<<model_name_on_hub, TokenizerFile>>] = HubTokenizer("distilbert-base-uncased")
    /\ \A i \in CallsTo("AutoTokenizer.from_pretrained") :
          calls[i].arg = "distilbert-base-uncased"

\* a run in which the uploaded tokenizer is not the one of the checkpoint
C9_Witness ==
    /\ Returned("tokenizer.push_to_hub")
    /\ fs[<<checkpoint_path, TokenizerFile>>] = Vocabulary(CustomVocab)
    /\ hub[<<model_name_on_hub, TokenizerFile>>] # fs[<<checkpoint_path, TokenizerFile>>]

\* C10: when the Repository handle is about to be constructed, and ever after
\* its construction, the local directory holds model, tokenizer and README.md
\* and the remote repository holds the model and the tokenizer; the model-card
\* push is only issued with a handle whose construction returned.
C10_RepositoryOpenedOnPopulatedDirectory ==
    /\ (pc = "open_repo" \/ Invoked("Repository")) =>
          /\ DirExists(model_name_on_hub)
          /\ fs[<<model_name_on_hub, ModelFile>>] = model
          /\ fs[<<model_name_on_hub, TokenizerFile>>] = tokenizer
          /\ fs[<<model_name_on_hub, ReadmeFile>>] = model_card_content
          /\ \A f \in Files : fs[<<model_name_on_hub, f>>] # Absent
          /\ hub[<<model_name_on_hub, ModelFile>>] = model
          /\ hub[<<model_name_on_hub, TokenizerFile>>] = tokenizer
    /\ (pc = "push_card" \/ Invoked("repo.push_to_hub")) =>
          /\ Returned("Repository")
          /\ repo # None
    /\ (repo # None) <=> Returned("Repository")

C10_Witness ==
    /\ pc = "push_card"
    /\ Returned("Repository")
    /\ repo # None
====
